---- MODULE Spec2Model ----
(***************************************************************************)
(* Model of the Telegram ingestion sidecar (src/telegram-sidecar/main.py): *)
(* one run_account listener per configured account, the shared store with  *)
(* its accounts and messages tables, the supervisor in main() that gathers *)
(* the listener tasks, the connection pool the tasks share, and the search *)
(* API (handle_search with its two SQL statements).                        *)
(***************************************************************************)
EXTENDS Integers, Sequences, FiniteSets, TLC

\* ------------------------------------------------------------------ bounds
MaxHist == 2        \* historical messages held by each conversation
MaxEvents == 1      \* new-message events delivered to the sessions per run
MaxFaults == 1      \* injected failures (raises, empty lookups, missing dates) per run
MaxRestarts == 1    \* process restarts against the same store
MaxRows == 3        \* rows the messages table holds in the runs explored
MaxSearch == 5      \* search requests in flight at the same time
MaxCreds == 2       \* Credentials objects the office-suite proxy creates

\* ------------------------------------------------------- program constants
DefaultPerChat == 50
PoolMax == 5                        \* create_pool(..., max_size=5)

\* ---------------------------------------------------------------- values
NULL == "NULL"                      \* Python None / SQL NULL in a text column
NoDate == 0                         \* msg.date is None
Accounts == {"tg1", "tg2"}          \* labels of the configured accounts
\* Conversations of each account, in iter_dialogs order.
Dialogs == [a \in Accounts |-> IF a = "tg1" THEN <<"C", "D">> ELSE <<"E">>]
LiveChat == "C"                     \* the chat new-message events arrive in

VARIABLES
    proc,       \* main(): "running" (awaiting gather) or "exited"
    pc,         \* pc[a]: position of run_account(a)
    accounts,   \* the accounts table, in insertion order
    messages,   \* the messages table, in insertion order
    sync_history_on_start,
    per_chat,
    dlg,        \* dlg[a]: index of the conversation sync_history is iterating
    pos,        \* pos[a]: messages iter_messages has yielded for that conversation
    dstat,      \* dstat[a][d]: how the backfill of conversation d went in this run
    syncState,  \* syncState[a]: the sync_history call: none, running, returned, raised
    last,       \* the input (backfill message or event) handled most recently
    received,   \* events the connected sessions have received in this run
    liveCalls,  \* liveCalls[a]: insert_message calls issued by handle_new_message
    faults,     \* failures injected so far in this run
    restarts,   \* process restarts so far
    conn,       \* conn[c]: where task c is and what it holds of the pool
    waitq,      \* the tasks waiting in pool.acquire(), in arrival order
    req,        \* the body of the search request being handled
    resp,       \* the response handle_search returned for it
    prevPage,   \* the response to the same search one page earlier
    phase,      \* the search client: idle, answered, paged
    env,        \* the environment main() reads: DATABASE_URL and the TGi_* slots
    boot,       \* how far main() has come in starting up
    configured, \* the labels get_accounts returned, in order
    call,       \* the handle_search call in flight: its stage and local variables
    creds_cache,    \* _creds_cache: account key -> the Credentials object cached
    service_cache,  \* _service_cache: (key, api) -> the Credentials its handle was built from
    credValid,      \* credValid[c]: Credentials object c is valid (not expired)
    result          \* what the last call into the office-suite proxy returned

ingestVars == <<proc, pc, accounts, messages, sync_history_on_start, per_chat, dlg, pos,
                dstat, syncState, last, received, liveCalls, faults, restarts>>

poolVars == <<conn, waitq>>

searchVars == <<req, resp, prevPage, phase>>

startVars == <<env, boot, configured>>

callVars == <<call>>

proxyVars == <<creds_cache, service_cache, credValid, result>>

vars == <<ingestVars, poolVars, searchVars, startVars, callVars, proxyVars>>

\* ------------------------------------------------------------ configuration
\* Raw values of the HISTORY_PER_CHAT environment variable.
RawInts == {"unset", "", " ", "abc", "0", "-1", "1"}

IntLiterals == [x \in {"0", "-1", "1"} |->
                  CASE x = "0" -> 0 [] x = "-1" -> 0 - 1 [] x = "1" -> 1]

\* getenv_int(name, default): the default when the variable is unset, blank
\* or not an integer literal.
getenv_int(raw, default) ==
    IF raw = "unset" \/ raw \in {"", " "} THEN default
    ELSE IF raw \in DOMAIN IntLiterals THEN IntLiterals[raw]
    ELSE default

\* per_chat = getenv_int("HISTORY_PER_CHAT", 50) or 50
EffectivePerChat(raw) ==
    LET v == getenv_int(raw, DefaultPerChat) IN IF v # 0 THEN v ELSE DefaultPerChat


\* ------------------------------------------------------------------ store
\* accounts(id SERIAL PRIMARY KEY, source, label, identity, status): the
\* primary key is the only uniqueness constraint the table declares.
AccountsUniqueColumns == {"id"}

AccountRow(id, label) ==
    [id |-> id, source |-> "telegram", label |-> label, identity |-> "phone",
     status |-> "active"]

\* A unique-constraint conflict of a new accounts row with an existing one.
AccountConflict(tbl, row) ==
    \E i \in 1..Len(tbl) : \E c \in AccountsUniqueColumns : tbl[i][c] = row[c]

\* INSERT INTO accounts ... ON CONFLICT DO NOTHING, the id drawn from the
\* table's sequence.
ensure_account_row(tbl, label) ==
    LET row == AccountRow(Len(tbl) + 1, label) IN
    IF AccountConflict(tbl, row) THEN tbl ELSE Append(tbl, row)

MessageRow(id, label, thread, sender_id, sender_name, ts, mid) ==
    [id |-> id, source |-> "telegram", account_label |-> label, thread_id |-> thread,
     sender_id |-> sender_id, sender_name |-> sender_name, text |-> "hi", ts |-> ts,
     message_id |-> mid]

\* messages.ts is declared TIMESTAMPTZ NOT NULL: the store rejects a NULL ts.
MessageAccepted(ts) == ts # NoDate

\* Faulty variant: a row of the same account, conversation and origin message
\* id is not written again.
insert_message_Dedup(tbl, label, thread, sender_id, sender_name, ts, mid) ==
    IF \E i \in 1..Len(tbl) : /\ tbl[i].account_label = label
                              /\ tbl[i].thread_id = thread
                              /\ tbl[i].message_id = mid
    THEN tbl
    ELSE Append(tbl, MessageRow(Len(tbl) + 1, label, thread, sender_id, sender_name, ts, mid))

\* INSERT INTO messages ..., the id drawn from the table's sequence.
insert_message(tbl, label, thread, sender_id, sender_name, ts, mid) ==
    Append(tbl, MessageRow(Len(tbl) + 1, label, thread, sender_id, sender_name, ts, mid))

\* ------------------------------------------------------------ the network
Min(x, y) == IF x < y THEN x ELSE y
Max(x, y) == IF x > y THEN x ELSE y

\* Messages client.iter_messages(entity, limit=per_chat) yields for a
\* conversation holding MaxHist messages.
Yieldable(limit) == Min(Max(limit, 0), MaxHist)

\* msg.date of the i-th message yielded (most recent first).
HistDate(i) == MaxHist + 1 - i

\* event.message.date of a new-message event that carries one.
LiveDate == MaxHist + 1

\* utc_now(): the ingestion time, later than every event time.
utc_now == MaxHist + 2

\* event.message.id of the k-th event received.
LiveMid(k) == MaxHist + k

\* str(sender.id) if sender else None
SenderId(sender) == IF sender = "ok" THEN "u1" ELSE NULL

\* sender.first_name or sender.title, None when there is no sender
SenderName(sender) == IF sender = "ok" THEN "Ann" ELSE NULL

\* str(chat.id) if chat else None
LiveThread(chat) == IF chat = "ok" THEN LiveChat ELSE NULL

\* ----------------------------------------------------------- run_account
\* States of run_account in which the session is connected.
Connected == {"ensure", "backfill", "live"}

\* States in which the task has ended.
Ended == {"done", "failed", "cancelled"}

\* Faulty variant: the handler is registered as soon as the account row is written,
\* before sync_history runs.
HandlerRegistered_AtConnect(p) == p \in {"backfill", "live"}

\* handle_new_message is registered after sync_history has returned.
HandlerRegistered(p) == p = "live"

\* Faulty variant: sync_history lacks the `if not msg.date: continue` guard.
BackfillSkips_Never(date) == FALSE

\* `if not msg.date: continue` in sync_history.
BackfillSkips(date) == date = NoDate

\* `event.message.date or utc_now()` in handle_new_message.
LiveTs(date) == IF date # NoDate THEN date ELSE utc_now

\* Faulty variant: a failure of ensure_account_row is swallowed and the listener
\* carries on.
AfterEnsure_IgnoresFailure(ok, sync) == IF sync THEN "backfill" ELSE "live"

\* Where run_account goes after `await ensure_account_row(...)`.
AfterEnsure(ok, sync) ==
    IF ~ok THEN "failed" ELSE IF sync THEN "backfill" ELSE "live"

NoInput ==
    [kind |-> "none", account |-> NULL, registered |-> FALSE, thread |-> NULL, mid |-> 0, date |-> NoDate,
     sender |-> "ok", chat |-> "ok", db |-> "ok", calls |-> 0, row |-> 0]

NoDialog == [done |-> FALSE, abort |-> "none", seen |-> 0, undated |-> 0]

Cost(b) == IF b THEN 1 ELSE 0

\* ------------------------------------------------------------------- tasks
\* The tasks that share the connection pool: one run_account task per account
\* and one handle_search task per request in flight.
Listeners == {<<"listener", a>> : a \in Accounts}

Requests == {<<"search", i>> : i \in 1..MaxSearch}

Clients == Listeners \cup Requests

\* A task that holds no connection and waits for none.
Detached(stage) == [at |-> stage, pool |-> "none"]

\* No search traffic: the listeners wait on the network, no request is in
\* flight.
PoolQuiet ==
    /\ conn = [c \in Clients |-> IF c \in Listeners THEN Detached("network")
                                                    ELSE Detached("idle")]
    /\ waitq = << >>

\* A request body that is a JSON object with none of the search keys.
EmptyBody ==
    [kind |-> "object", source |-> [t |-> "absent"], query |-> [t |-> "absent"],
     account |-> [t |-> "absent"], thread_id |-> [t |-> "absent"],
     from |-> [t |-> "absent"], to |-> [t |-> "absent"],
     limit |-> [t |-> "absent"], offset |-> [t |-> "absent"]]

NoRequest == [EmptyBody EXCEPT !.kind = "none"]

\* What handle_search answers: the HTTP status, the ids of "messages" in
\* order, and "total". acquired, limit and offset are not sent: they record
\* whether pool.acquire() was entered and the LIMIT and OFFSET passed on.
Response(status, acquired, ids, total, limit, offset) ==
    [status |-> status, acquired |-> acquired, messages |-> ids, total |-> total,
     limit |-> limit, offset |-> offset]

NoResponse == Response(0, FALSE, << >>, 0, 0, 0)

SearchQuiet ==
    /\ req = NoRequest
    /\ resp = NoResponse
    /\ prevPage = NoResponse
    /\ phase = "idle"

\* for i in range(1, 4): the account slots TG1_*, TG2_*, TG3_*.
Slots == 1..3

\* An environment that configures the accounts tg1 and tg2.
RunningEnv ==
    [db_url |-> "dsn",
     slot |-> [i \in Slots |-> IF i <= 2
                                THEN [api_id |-> "1", api_hash |-> "h", phone |-> "p"]
                                ELSE [api_id |-> "unset", api_hash |-> "",
                                      phone |-> "unset"]]]

\* main() has started up from RunningEnv.
StartQuiet ==
    /\ env = RunningEnv
    /\ boot = [stage |-> "listening", pool |-> TRUE, http |-> TRUE,
               listeners |-> <<"tg1", "tg2">>]
    /\ configured = <<"tg1", "tg2">>

NoCall ==
    [stage |-> "none", step |-> 0, failed |-> "none", page |-> << >>, total |-> 0,
     limit |-> 0, offset |-> 0, atFetch |-> 0, atCount |-> 0]

CallQuiet == call = NoCall

\* The accounts of the office-suite proxy, in the order _accounts holds them,
\* and the APIs its tools build handles for.
GoogleAccounts == <<"a@x", "b@x">>

GoogleKeys == {GoogleAccounts[i] : i \in DOMAIN GoogleAccounts}

Apis == {"gmail", "calendar", "drive"}

NoCreds == 0

\* What the last tool call answered: the account argument, whether it
\* raised, the merged items and the total, and, to follow the call, the
\* accounts queried, those whose query raised and the handles _get_service
\* returned.
Result(tool, requested, error, items, queried, failed, handles) ==
    [tool |-> tool, requested |-> requested, error |-> error, items |-> items,
     total |-> Len(items), queried |-> queried, failed |-> failed,
     handles |-> handles]

NoResult == Result("none", "", FALSE, << >>, << >>, {}, << >>)

\* The proxy right after import: both caches empty.
ProxyQuiet ==
    /\ creds_cache = [k \in GoogleKeys |-> NoCreds]
    /\ service_cache = [k \in GoogleKeys |-> [api \in Apis |-> NoCreds]]
    /\ credValid = << >>
    /\ result = NoResult

Elsewhere == StartQuiet /\ CallQuiet /\ ProxyQuiet

Init ==
    /\ proc = "running"
    /\ pc = [a \in Accounts |-> "start"]
    /\ accounts = << >>
    /\ messages = << >>
    /\ sync_history_on_start \in BOOLEAN
    /\ \E raw \in RawInts : per_chat = EffectivePerChat(raw)
    /\ dlg = [a \in Accounts |-> 1]
    /\ pos = [a \in Accounts |-> 0]
    /\ dstat = [a \in Accounts |-> [d \in 1..Len(Dialogs[a]) |-> NoDialog]]
    /\ syncState = [a \in Accounts |-> "none"]
    /\ last = NoInput
    /\ received = 0
    /\ liveCalls = [a \in Accounts |-> 0]
    /\ faults = 0
    /\ restarts = 0
    /\ PoolQuiet
    /\ SearchQuiet
    /\ Elsewhere

\* await client.start(phone=account.phone)
ClientStart(a) ==
    /\ proc = "running" /\ pc[a] = "start"
    /\ \E ok \in BOOLEAN :
         /\ faults + Cost(~ok) <= MaxFaults
         /\ faults' = faults + Cost(~ok)
         /\ pc' = [pc EXCEPT ![a] = IF ok THEN "ensure" ELSE "failed"]
    /\ UNCHANGED <<proc, accounts, messages, sync_history_on_start, per_chat, dlg, pos,
                   dstat, syncState, last, received, liveCalls, restarts>>
    /\ UNCHANGED <<poolVars, searchVars, startVars, callVars, proxyVars>>

\* await ensure_account_row(pool, account), then on to sync_history or to
\* registering the handler and run_until_disconnected.
EnsureAccountRow(a) ==
    /\ proc = "running" /\ pc[a] = "ensure"
    /\ \E ok \in BOOLEAN :
         /\ faults + Cost(~ok) <= MaxFaults
         /\ faults' = faults + Cost(~ok)
         /\ accounts' = IF ok THEN ensure_account_row(accounts, a) ELSE accounts
         /\ pc' = [pc EXCEPT ![a] = AfterEnsure(ok, sync_history_on_start)]
         /\ syncState' = [syncState EXCEPT ![a] =
                            IF AfterEnsure(ok, sync_history_on_start) = "backfill"
                            THEN "running" ELSE "none"]
    /\ UNCHANGED <<proc, messages, sync_history_on_start, per_chat, dlg, pos, dstat, last,
                   received, liveCalls, restarts>>
    /\ UNCHANGED <<poolVars, searchVars, startVars, callVars, proxyVars>>

\* Faulty variant: the try block is missing, an error in a conversation's loop ends
\* sync_history and run_account.
AfterDialogError_Raises(next) == "failed"

\* `except Exception: continue` around a conversation's loop: the error is
\* swallowed and sync_history goes where it would have gone without it.
AfterDialogError(next) == next

\* The state of the sync_history call when run_account is at p.
SyncStateAt(p) ==
    CASE p = "backfill" -> "running" [] p = "live" -> "returned"
      [] p = "failed" -> "raised" [] OTHER -> "none"

\* sync_history moves on to the next conversation; when iter_dialogs is
\* exhausted it returns, and run_account registers handle_new_message and
\* awaits run_until_disconnected.
NextDialog(a, how) ==
    /\ dstat' = [dstat EXCEPT ![a][dlg[a]] =
                    [done |-> TRUE, abort |-> how.abort, seen |-> how.seen,
                     undated |-> how.undated]]
    /\ dlg' = [dlg EXCEPT ![a] = dlg[a] + 1]
    /\ pos' = [pos EXCEPT ![a] = 0]
    /\ LET next == IF dlg[a] + 1 > Len(Dialogs[a]) THEN "live" ELSE "backfill"
           p == IF how.abort = "none" THEN next ELSE AfterDialogError(next)
       IN /\ pc' = [pc EXCEPT ![a] = p]
          /\ syncState' = [syncState EXCEPT ![a] = SyncStateAt(p)]

InDialog(a) == proc = "running" /\ pc[a] = "backfill" /\ dlg[a] \in 1..Len(Dialogs[a])

\* One iteration of `async for msg in client.iter_messages(...)`: the body of
\* the loop for the message yielded, with the outcome of get_sender and of
\* the store.
BackfillMessage(a) ==
    /\ InDialog(a)
    /\ pos[a] < Yieldable(per_chat)
    /\ Len(messages) < MaxRows
    /\ \E dated \in BOOLEAN, sender \in {"ok", "none", "raise"}, dbok \in BOOLEAN :
         LET i == pos[a] + 1
             date == IF dated THEN HistDate(i) ELSE NoDate
             thread == Dialogs[a][dlg[a]]
             st == dstat[a][dlg[a]]
             inp == [kind |-> "backfill", account |-> a, registered |-> TRUE,
                     thread |-> thread, mid |-> i, date |-> date, sender |-> sender,
                     chat |-> "ok",
                     db |-> IF dbok THEN "ok" ELSE "fail", calls |-> 0, row |-> 0]
         IN
         /\ faults + Cost(~dated) + Cost(sender # "ok") + Cost(~dbok) <= MaxFaults
         /\ faults' = faults + Cost(~dated) + Cost(sender # "ok") + Cost(~dbok)
         /\ IF BackfillSkips(date)
            THEN \* continue: nothing is looked up or written
                 /\ sender = "ok" /\ dbok
                 /\ last' = inp
                 /\ pos' = [pos EXCEPT ![a] = i]
                 /\ dstat' = [dstat EXCEPT ![a][dlg[a]].undated = st.undated + 1]
                 /\ UNCHANGED <<messages, dlg, pc, syncState>>
            ELSE IF sender = "raise"
            THEN \* msg.get_sender() raises: except Exception: continue
                 /\ dbok
                 /\ last' = inp
                 /\ NextDialog(a, [abort |-> "sender", seen |-> i, undated |-> st.undated])
                 /\ UNCHANGED messages
            ELSE IF dbok /\ MessageAccepted(date)
            THEN /\ messages' = insert_message(messages, a, thread, SenderId(sender),
                                               SenderName(sender), date, i)
                 /\ last' = [inp EXCEPT !.calls = 1, !.row = Len(messages) + 1]
                 /\ pos' = [pos EXCEPT ![a] = i]
                 /\ UNCHANGED <<dstat, dlg, pc, syncState>>
            ELSE \* insert_message raises: except Exception: continue
                 /\ last' = [inp EXCEPT !.calls = 1, !.db = "fail"]
                 /\ NextDialog(a, [abort |-> "db", seen |-> i, undated |-> st.undated])
                 /\ UNCHANGED messages
    /\ UNCHANGED <<proc, accounts, sync_history_on_start, per_chat, received, liveCalls,
                   restarts>>
    /\ UNCHANGED <<poolVars, searchVars, startVars, callVars, proxyVars>>

\* client.iter_messages raises while more of the conversation is to be
\* fetched: except Exception: continue.
BackfillFetchError(a) ==
    /\ InDialog(a)
    /\ pos[a] = 0 \/ pos[a] < Yieldable(per_chat)
    /\ faults < MaxFaults
    /\ faults' = faults + 1
    /\ NextDialog(a, [abort |-> "fetch", seen |-> pos[a],
                      undated |-> dstat[a][dlg[a]].undated])
    /\ UNCHANGED <<proc, accounts, messages, sync_history_on_start, per_chat, last,
                   received, liveCalls, restarts>>
    /\ UNCHANGED <<poolVars, searchVars, startVars, callVars, proxyVars>>

\* client.iter_messages is exhausted for the conversation.
BackfillDialogEnd(a) ==
    /\ InDialog(a)
    /\ pos[a] = Yieldable(per_chat)
    /\ NextDialog(a, [abort |-> "none", seen |-> pos[a],
                      undated |-> dstat[a][dlg[a]].undated])
    /\ UNCHANGED <<proc, accounts, messages, sync_history_on_start, per_chat, last,
                   received, liveCalls, faults, restarts>>
    /\ UNCHANGED <<poolVars, searchVars, startVars, callVars, proxyVars>>

\* client.iter_dialogs() raises: outside the try block, so sync_history and
\* run_account raise.
IterDialogsError(a) ==
    /\ InDialog(a)
    /\ dlg[a] = 1 /\ pos[a] = 0
    /\ faults < MaxFaults
    /\ faults' = faults + 1
    /\ pc' = [pc EXCEPT ![a] = "failed"]
    /\ syncState' = [syncState EXCEPT ![a] = "raised"]
    /\ UNCHANGED <<proc, accounts, messages, sync_history_on_start, per_chat, dlg, pos,
                   dstat, last, received, liveCalls, restarts>>
    /\ UNCHANGED <<poolVars, searchVars, startVars, callVars, proxyVars>>

\* The connected session receives a new-message event: dispatched to
\* handle_new_message when it is registered, to nobody otherwise.
NewMessage(a) ==
    /\ proc = "running" /\ pc[a] \in Connected
    /\ received < MaxEvents
    /\ Len(messages) < MaxRows
    /\ received' = received + 1
    /\ \E dated \in BOOLEAN, sender \in {"ok", "none", "raise"},
          chat \in {"ok", "none", "raise"}, dbok \in BOOLEAN :
         LET k == received + 1
             date == IF dated THEN LiveDate ELSE NoDate
             f == Cost(~dated) + Cost(sender # "ok") + Cost(chat # "ok") + Cost(~dbok)
             inp == [kind |-> "live", account |-> a,
                     registered |-> HandlerRegistered(pc[a]), thread |-> LiveChat, mid |-> LiveMid(k), date |-> date,
                     sender |-> sender, chat |-> chat,
                     db |-> IF dbok THEN "ok" ELSE "fail", calls |-> 0, row |-> 0]
         IN
         /\ faults + f <= MaxFaults
         /\ faults' = faults + f
         /\ IF ~HandlerRegistered(pc[a])
            THEN \* no handler: the event is not handled
                 /\ dated /\ sender = "ok" /\ chat = "ok" /\ dbok
                 /\ last' = inp
                 /\ UNCHANGED <<messages, liveCalls>>
            ELSE IF sender = "raise" \/ chat = "raise"
            THEN \* event.get_sender() or event.get_chat() raises: the handler ends
                 /\ dbok /\ (sender = "raise" => chat = "ok")
                 /\ last' = inp
                 /\ UNCHANGED <<messages, liveCalls>>
            ELSE IF dbok /\ MessageAccepted(LiveTs(date))
            THEN /\ messages' = insert_message(messages, a, LiveThread(chat),
                                               SenderId(sender), SenderName(sender),
                                               LiveTs(date), LiveMid(k))
                 /\ last' = [inp EXCEPT !.calls = 1, !.row = Len(messages) + 1]
                 /\ liveCalls' = [liveCalls EXCEPT ![a] = liveCalls[a] + 1]
            ELSE \* insert_message raises: the handler ends
                 /\ last' = [inp EXCEPT !.calls = 1, !.db = "fail"]
                 /\ liveCalls' = [liveCalls EXCEPT ![a] = liveCalls[a] + 1]
                 /\ UNCHANGED messages
    /\ UNCHANGED <<proc, pc, accounts, sync_history_on_start, per_chat, dlg, pos, dstat,
                   syncState, restarts>>
    /\ UNCHANGED <<poolVars, searchVars, startVars, callVars, proxyVars>>

\* await client.run_until_disconnected() returns (a clean disconnect) or
\* raises (the connection was lost).
Disconnected(a) ==
    /\ proc = "running" /\ pc[a] = "live"
    /\ \E err \in BOOLEAN :
         /\ faults + Cost(err) <= MaxFaults
         /\ faults' = faults + Cost(err)
         /\ pc' = [pc EXCEPT ![a] = IF err THEN "failed" ELSE "done"]
    /\ UNCHANGED <<proc, accounts, messages, sync_history_on_start, per_chat, dlg, pos,
                   dstat, syncState, last, received, liveCalls, restarts>>
    /\ UNCHANGED <<poolVars, searchVars, startVars, callVars, proxyVars>>

\* ------------------------------------------------------------------ main
\* The HTTP search API runs on the event loop that asyncio.run(main()) owns.
SearchServiceUp == proc = "running"

\* await asyncio.gather(*tasks): the first exception of a task is raised in
\* main(); asyncio.run then cancels the tasks still pending and the process
\* exits.
GatherRaises ==
    /\ proc = "running"
    /\ \E a \in Accounts : pc[a] = "failed"
    /\ proc' = "exited"
    /\ pc' = [a \in Accounts |-> IF pc[a] \in Ended THEN pc[a] ELSE "cancelled"]
    /\ UNCHANGED <<accounts, messages, sync_history_on_start, per_chat, dlg, pos, dstat,
                   syncState, last, received, liveCalls, faults, restarts>>
    /\ UNCHANGED <<poolVars, searchVars, startVars, callVars, proxyVars>>

\* await asyncio.gather(*tasks) returns once every task has returned.
GatherReturns ==
    /\ proc = "running"
    /\ \A a \in Accounts : pc[a] = "done"
    /\ proc' = "exited"
    /\ UNCHANGED <<pc, accounts, messages, sync_history_on_start, per_chat, dlg, pos,
                   dstat, syncState, last, received, liveCalls, faults, restarts>>
    /\ UNCHANGED <<poolVars, searchVars, startVars, callVars, proxyVars>>

\* The process is started again with the same environment against the same
\* store: CREATE TABLE IF NOT EXISTS keeps both tables.
Restart ==
    /\ proc = "exited"
    /\ restarts < MaxRestarts
    /\ restarts' = restarts + 1
    /\ proc' = "running"
    /\ pc' = [a \in Accounts |-> "start"]
    /\ dlg' = [a \in Accounts |-> 1]
    /\ pos' = [a \in Accounts |-> 0]
    /\ dstat' = [a \in Accounts |-> [d \in 1..Len(Dialogs[a]) |-> NoDialog]]
    /\ syncState' = [a \in Accounts |-> "none"]
    /\ last' = NoInput
    /\ received' = 0
    /\ liveCalls' = [a \in Accounts |-> 0]
    /\ UNCHANGED <<accounts, messages, sync_history_on_start, per_chat, faults>>
    /\ UNCHANGED <<poolVars, searchVars, startVars, callVars, proxyVars>>

Listener(a) ==
    \/ ClientStart(a)
    \/ EnsureAccountRow(a)
    \/ BackfillMessage(a)
    \/ BackfillFetchError(a)
    \/ BackfillDialogEnd(a)
    \/ IterDialogsError(a)
    \/ NewMessage(a)
    \/ Disconnected(a)

Next ==
    \/ \E a \in Accounts : Listener(a)
    \/ GatherRaises
    \/ GatherReturns

Spec == Init /\ [][Next]_vars

NextRestart == Next \/ Restart

SpecRestart == Init /\ [][NextRestart]_vars

\* -------------------------------------------------------- connection pool
\* pool = await asyncpg.create_pool(dsn=db_url, min_size=1, max_size=5): at
\* most PoolMax connections are out at a time.
InUse == Cardinality({c \in Clients : conn[c].pool = "held"})

\* Faulty variant: the connection is taken before the network round trips.
UsesConnection_Always(stage) == TRUE

\* The stages a task runs inside "async with pool.acquire() as conn":
\* conn.execute of insert_message, conn.fetch and conn.fetchval of
\* handle_search. client.start, iter_dialogs, iter_messages, get_sender,
\* get_chat and run_until_disconnected are awaited outside of it.
UsesConnection(stage) == stage \in {"execute", "fetch", "count"}

\* Task c moves on to a stage. It enters pool.acquire() when the stage needs
\* a connection it does not hold: it takes a free connection at once and
\* waits in line otherwise. It leaves the "async with" block when the stage
\* needs none: the connection goes back to the pool, which hands it to the
\* task that has waited longest.
Enter(c, stage) ==
    LET needs == UsesConnection(stage)
        has == conn[c].pool = "held"
        free == InUse < PoolMax
        handsOver == ~needs /\ has /\ waitq # << >>
    IN
    /\ conn' = [x \in Clients |->
                  IF x = c
                  THEN [at |-> stage,
                        pool |-> IF ~needs THEN "none"
                                 ELSE IF has \/ free THEN "held" ELSE "waiting"]
                  ELSE IF handsOver /\ x = Head(waitq)
                  THEN [conn[x] EXCEPT !.pool = "held"]
                  ELSE conn[x]]
    /\ waitq' = IF needs /\ ~has /\ ~free THEN Append(waitq, c)
                ELSE IF handsOver THEN Tail(waitq)
                ELSE waitq

\* Ingestion with every run_account task at position p and the messages
\* table holding tbl.
IngestAt(p, tbl) ==
    /\ proc = "running"
    /\ pc = [a \in Accounts |-> p]
    /\ accounts = << >>
    /\ messages = tbl
    /\ sync_history_on_start = FALSE
    /\ per_chat = DefaultPerChat
    /\ dlg = [a \in Accounts |-> 1]
    /\ pos = [a \in Accounts |-> 0]
    /\ dstat = [a \in Accounts |-> [d \in 1..Len(Dialogs[a]) |-> NoDialog]]
    /\ syncState = [a \in Accounts |-> "none"]
    /\ last = NoInput
    /\ received = 0
    /\ liveCalls = [a \in Accounts |-> 0]
    /\ faults = 0
    /\ restarts = 0

\* Ingestion as the pool and the search API see it: every listener is
\* connected and live.
IngestLive(tbl) == IngestAt("live", tbl)

InitPool == IngestLive(<< >>) /\ PoolQuiet /\ SearchQuiet /\ Elsewhere

\* The network hands the listener a message or an event (iter_messages
\* yields, get_sender returns, the handler is called); insert_message then
\* asks the pool for a connection.
ListenerInput(l) ==
    /\ proc = "running"
    /\ conn[l].at = "network" /\ conn[l].pool # "waiting"
    /\ Enter(l, "execute")
    /\ UNCHANGED <<ingestVars, searchVars, startVars, callVars, proxyVars>>

\* conn.execute returns; the listener goes back to the network.
ListenerExecuted(l) ==
    /\ proc = "running"
    /\ conn[l].at = "execute" /\ conn[l].pool = "held"
    /\ Enter(l, "network")
    /\ UNCHANGED <<ingestVars, searchVars, startVars, callVars, proxyVars>>

\* A search request arrives; handle_search asks the pool for a connection.
SearchArrives(r) ==
    /\ proc = "running"
    /\ conn[r].at = "idle"
    /\ Enter(r, "fetch")
    /\ UNCHANGED <<ingestVars, searchVars, startVars, callVars, proxyVars>>

\* conn.fetch(SEARCH_SQL, ...) returns; conn.fetchval(COUNT_SQL, ...) follows
\* on the same connection.
SearchFetched(r) ==
    /\ proc = "running"
    /\ conn[r].at = "fetch" /\ conn[r].pool = "held"
    /\ Enter(r, "count")
    /\ UNCHANGED <<ingestVars, searchVars, startVars, callVars, proxyVars>>

\* conn.fetchval returns; the "async with" block ends and the response is
\* sent.
SearchCounted(r) ==
    /\ proc = "running"
    /\ conn[r].at = "count" /\ conn[r].pool = "held"
    /\ Enter(r, "idle")
    /\ UNCHANGED <<ingestVars, searchVars, startVars, callVars, proxyVars>>

\* The process is told to stop (SIGINT reaches asyncio.run, SIGTERM ends the
\* process): main() installs no handler and never drains, so every task is
\* cancelled where it stands, an insert_message inside conn.execute included.
Shutdown ==
    /\ proc = "running"
    /\ proc' = "exited"
    /\ conn' = [c \in Clients |->
                 IF conn[c].at = "idle" THEN conn[c]
                 ELSE IF conn[c].at = "execute" /\ conn[c].pool = "held"
                 THEN Detached("abandoned")
                 ELSE Detached("cancelled")]
    /\ waitq' = << >>
    /\ UNCHANGED <<pc, accounts, messages, sync_history_on_start, per_chat, dlg, pos,
                   dstat, syncState, last, received, liveCalls, faults, restarts>>
    /\ UNCHANGED <<searchVars, startVars, callVars, proxyVars>>

NextPool ==
    \/ \E l \in Listeners : ListenerInput(l)
    \/ \E l \in Listeners : ListenerExecuted(l)
    \/ \E r \in Requests : SearchArrives(r)
    \/ \E r \in Requests : SearchFetched(r)
    \/ \E r \in Requests : SearchCounted(r)

SpecPool == InitPool /\ [][NextPool]_vars

\* The store answers every statement it is sent. Nothing is assumed of the
\* network: a listener may wait on it forever.
PoolFairness ==
    /\ \A l \in Listeners : WF_vars(ListenerExecuted(l))
    /\ \A r \in Requests : WF_vars(SearchFetched(r)) /\ WF_vars(SearchCounted(r))

SpecPoolFair == SpecPool /\ PoolFairness

NextShutdown == NextPool \/ Shutdown

SpecShutdown == InitPool /\ [][NextShutdown]_vars

\* ------------------------------------------------------ search: JSON values
\* A value of the request body: a key that is missing, null, a string, an
\* integer. body.get(key) gives None for a missing key and for null alike.
Absent == [t |-> "absent"]

JNull == [t |-> "null"]

Str(x) == [t |-> "str", s |-> x]

Num(n) == [t |-> "int", n |-> n]

IsNone(j) == j.t \in {"absent", "null"}

\* Python truthiness of a body value: None, "" and 0 are falsy.
Falsy(j) ==
    \/ IsNone(j)
    \/ j.t = "str" /\ j.s = ""
    \/ j.t = "int" /\ j.n = 0

\* body.get(key) or None
OrNone(j) == IF Falsy(j) THEN JNull ELSE j

\* body.get("query", ""): the default replaces a missing key only.
QueryOf(j) == IF j.t = "absent" THEN Str("") ELSE j

\* Faulty variant: the upper bound is not applied.
_clamp_NoCeiling(val, lo, hi, default) ==
    IF IsNone(val) THEN default ELSE Max(lo, val.n)

\* _clamp(val, lo, hi, default) on None and on integers.
_clamp(val, lo, hi, default) ==
    IF IsNone(val) THEN default ELSE Max(lo, Min(hi, val.n))

\* min(hi, val) raises TypeError when val is a string.
ClampRaises(val) == ~IsNone(val) /\ val.t # "int"

\* ------------------------------------------------- search: text matching
\* The strings that occur as row texts and as queries, as character
\* sequences.
CharsOf ==
    [x \in {"", " ", "!", "hi", "HI", "yo", "hi yo", "Hi yo", "zz"} |->
       CASE x = "" -> << >>
         [] x = " " -> <<" ">>
         [] x = "!" -> <<"!">>
         [] x = "hi" -> <<"h", "i">>
         [] x = "HI" -> <<"H", "I">>
         [] x = "yo" -> <<"y", "o">>
         [] x = "hi yo" -> <<"h", "i", " ", "y", "o">>
         [] x = "Hi yo" -> <<"H", "i", " ", "y", "o">>
         [] x = "zz" -> <<"z", "z">>]

Lower(ch) ==
    CASE ch = "H" -> "h" [] ch = "I" -> "i" [] OTHER -> ch

IsWordChar(ch) == Lower(ch) \in {"h", "i", "y", "o", "z"}

\* The parser of the 'simple' text search configuration: maximal runs of
\* word characters, lower-cased; nothing is dropped as a stop word.
RECURSIVE Scan(_, _, _)
Scan(chars, word, found) ==
    LET closed == IF word = << >> THEN found ELSE found \cup {word} IN
    IF chars = << >> THEN closed
    ELSE IF IsWordChar(Head(chars))
         THEN Scan(Tail(chars), Append(word, Lower(Head(chars))), found)
         ELSE Scan(Tail(chars), << >>, closed)

\* to_tsvector('simple', coalesce(text, ''))
to_tsvector(text) == Scan(CharsOf[IF text = NULL THEN "" ELSE text], << >>, {})

\* plainto_tsquery('simple', q): the conjunction of the tokens of q.
plainto_tsquery(q) == Scan(CharsOf[q], << >>, {})

\* Faulty variant: one token of the query is enough.
TsMatch_AnyToken(vector, tsquery) == tsquery \cap vector # {}

\* tsvector @@ tsquery, for a query that has tokens
TsMatch(vector, tsquery) == tsquery \subseteq vector

\* ------------------------------------------------------- search: the SQL
SourceClause(row, p) ==
    p.source.t = "null" \/ (p.source.t = "str" /\ row.source = p.source.s)

\* $2 = '' OR plainto_tsquery('simple', $2)::text = '' OR tsvector @@
\* tsquery: all three are NULL, and the row is not selected, when $2 is NULL.
QueryClause(row, p) ==
    /\ p.query.t = "str"
    /\ \/ p.query.s = ""
       \/ plainto_tsquery(p.query.s) = {}
       \/ TsMatch(to_tsvector(row.text), plainto_tsquery(p.query.s))

AccountClause(row, p) ==
    p.account.t = "null" \/ (p.account.t = "str" /\ row.account_label = p.account.s)

ThreadClause(row, p) ==
    \/ p.thread_id.t = "null"
    \/ p.thread_id.t = "str" /\ row.thread_id # NULL /\ row.thread_id = p.thread_id.s

FromClause(row, p) == p.from.t = "null" \/ (p.from.t = "ts" /\ row.ts >= p.from.at)

ToClause(row, p) == p.to.t = "null" \/ (p.to.t = "ts" /\ row.ts <= p.to.at)

\* Faulty variant: the count ignores the account filter.
CountWhere_NoAccount(row, p) ==
    /\ SourceClause(row, p) /\ QueryClause(row, p)
    /\ ThreadClause(row, p) /\ FromClause(row, p) /\ ToClause(row, p)

\* WHERE of COUNT_SQL
CountWhere(row, p) ==
    /\ SourceClause(row, p) /\ QueryClause(row, p) /\ AccountClause(row, p)
    /\ ThreadClause(row, p) /\ FromClause(row, p) /\ ToClause(row, p)

\* WHERE of SEARCH_SQL
SearchWhere(row, p) ==
    /\ SourceClause(row, p) /\ QueryClause(row, p) /\ AccountClause(row, p)
    /\ ThreadClause(row, p) /\ FromClause(row, p) /\ ToClause(row, p)

\* The orders in which a set of row ids can be listed.
SeqsOver(ids) ==
    {o \in [1..Cardinality(ids) -> ids] :
        \A i, j \in 1..Cardinality(ids) : i # j => o[i] # o[j]}

\* Faulty variant: the rows come back in any order.
OrderByTsDesc_Unordered(tbl, ids) == SeqsOver(ids)

\* ORDER BY ts DESC: later rows first. The statement names no second sort
\* key, so rows of equal ts come in whatever order the executor produces.
OrderByTsDesc(tbl, ids) ==
    {o \in SeqsOver(ids) :
        \A i, j \in 1..Cardinality(ids) : i < j => tbl[o[i]].ts >= tbl[o[j]].ts}

\* LIMIT $7 OFFSET $8
LimitOffset(o, limit, offset) == SubSeq(o, offset + 1, Min(Len(o), offset + limit))

\* The results conn.fetch(SEARCH_SQL, ...) can return, as sequences of ids.
SEARCH_SQL(tbl, p, limit, offset) ==
    {LimitOffset(o, limit, offset) :
        o \in OrderByTsDesc(tbl, {i \in 1..Len(tbl) : SearchWhere(tbl[i], p)})}

\* conn.fetchval(COUNT_SQL, ...)
COUNT_SQL(tbl, p) == Cardinality({i \in 1..Len(tbl) : CountWhere(tbl[i], p)})

\* ------------------------------------------------- search: handle_search
\* The arguments handed to the two statements.
Params(body) ==
    [source |-> OrNone(body.source), query |-> QueryOf(body.query),
     account |-> OrNone(body.account), thread_id |-> OrNone(body.thread_id),
     from |-> OrNone(body.from), to |-> OrNone(body.to)]

\* The driver encodes an argument for the type the statement gives its
\* parameter: text takes None or a str, timestamptz takes None or a datetime.
\* A JSON body carries no datetime, so a from or to that is not None is
\* refused when conn.fetch binds it.
BindRaises(p) ==
    \/ \E k \in {"source", "query", "account", "thread_id"} : p[k].t \notin {"null", "str"}
    \/ \E k \in {"from", "to"} : p[k].t \notin {"null", "ts"}

\* handle_search(request): the responses it can give to a body over a
\* messages table.
handle_search(tbl, body) ==
    IF body.kind = "malformed"
    THEN \* request.json() raises: 400
         {Response(400, FALSE, << >>, 0, 0, 0)}
    ELSE IF body.kind # "object"
    THEN \* body.get raises AttributeError outside of any try: aiohttp answers 500
         {Response(500, FALSE, << >>, 0, 0, 0)}
    ELSE IF ClampRaises(body.limit) \/ ClampRaises(body.offset)
    THEN \* _clamp raises TypeError outside of any try: aiohttp answers 500
         {Response(500, FALSE, << >>, 0, 0, 0)}
    ELSE LET p == Params(body)
             limit == _clamp(body.limit, 1, 100, 20)
             offset == _clamp(body.offset, 0, 10000, 0)
         IN IF BindRaises(p)
            THEN \* except Exception inside pool.acquire(): 500 "db error"
                 {Response(500, TRUE, << >>, 0, limit, offset)}
            ELSE {Response(200, TRUE, page, COUNT_SQL(tbl, p), limit, offset) :
                     page \in SEARCH_SQL(tbl, p, limit, offset)}

\* The rows of the stores searched: account, conversation, text, timestamp.
RowShapes ==
    {[account |-> "tg1", thread |-> "C", text |-> "Hi yo", ts |-> 1],
     [account |-> "tg2", thread |-> "E", text |-> "hi", ts |-> 2],
     [account |-> "tg1", thread |-> "D", text |-> NULL, ts |-> 1],
     [account |-> "tg2", thread |-> NULL, text |-> "yo", ts |-> 1]}

StoredRow(id, shape) ==
    [MessageRow(id, shape.account, shape.thread, "u1", "Ann", shape.ts, id)
        EXCEPT !.text = shape.text]

\* The messages tables searched: ids ascend in insertion order.
Stores ==
    UNION {{[i \in 1..n |-> StoredRow(i, f[i])] : f \in [1..n -> RowShapes]} :
             n \in 0..MaxRows}

\* Request bodies: combinations of the text filters, the time bounds, the
\* paging arguments, and the bodies that are not well formed.
FilterBodies ==
    {[EmptyBody EXCEPT !.source = x, !.query = q, !.account = a, !.thread_id = c] :
        x \in {Absent, Str("telegram"), Str("other")},
        q \in {Absent, JNull} \cup {Str(w) : w \in DOMAIN CharsOf \ {"Hi yo", "yo"}},
        a \in {Absent, JNull, Str("tg1"), Str("tg3")},
        c \in {Absent, Str("C")}}

TimeBodies ==
    {[EmptyBody EXCEPT !.from = f, !.to = u] :
        f, u \in {Absent, JNull, Str("2024-01-01T00:00:00Z"), Str("yesterday")}}

PageBodies ==
    {[EmptyBody EXCEPT !.account = a, !.limit = l, !.offset = o] :
        a \in {Absent, Str("tg1")},
        l \in {Absent, JNull} \cup {Num(n) : n \in {0, 1, 2, 100, 101, 500}},
        o \in {Absent} \cup {Num(n) : n \in {0 - 5, 0, 1, 2, 10000, 10001}}}

BadBodies ==
    {[EmptyBody EXCEPT !.kind = "malformed"], [EmptyBody EXCEPT !.kind = "array"],
     [EmptyBody EXCEPT !.limit = Str("10")], [EmptyBody EXCEPT !.offset = Str("x")]}

Bodies == FilterBodies \cup TimeBodies \cup PageBodies \cup BadBodies

InitSearch ==
    (\E tbl \in Stores : IngestLive(tbl)) /\ PoolQuiet /\ SearchQuiet /\ Elsewhere

\* POST /search with a body: handle_search runs to its response. No write
\* reaches the store meanwhile.
Search(body) ==
    /\ proc = "running"
    /\ phase = "idle"
    /\ req' = body
    /\ resp' \in handle_search(messages, body)
    /\ prevPage' = NoResponse
    /\ phase' = "answered"
    /\ UNCHANGED <<ingestVars, poolVars, startVars, callVars, proxyVars>>

\* The client asks for the page that follows: the same body with the offset
\* moved on by the limit it asked for.
NextPage ==
    /\ proc = "running"
    /\ phase = "answered"
    /\ resp.status = 200
    /\ req.limit.t = "int" /\ req.limit.n \in 1..100
    /\ req' = [req EXCEPT !.offset = Num(resp.offset + req.limit.n)]
    /\ resp' \in handle_search(messages, req')
    /\ prevPage' = resp
    /\ phase' = "paged"
    /\ UNCHANGED <<ingestVars, poolVars, startVars, callVars, proxyVars>>

NextSearch ==
    \/ \E body \in Bodies : Search(body)
    \/ NextPage

SpecSearch == InitSearch /\ [][NextSearch]_vars

\* ------------------------------------- search: handle_search step by step
\* Faulty variant: the count is taken before the page.
SearchSteps_CountFirst == <<"count", "fetch">>

\* The statements handle_search awaits inside "async with pool.acquire()",
\* in order: conn.fetch(SEARCH_SQL, ...), then conn.fetchval(COUNT_SQL, ...).
SearchSteps == <<"fetch", "count">>

\* Faulty variant: a failing count still answers with the page fetched.
OnStoreError_Partial(c) == Response(200, TRUE, c.page, 0, c.limit, c.offset)

\* except Exception as e: return web.json_response({"error": ...},
\* status=500): neither "messages" nor "total" is sent.
OnStoreError(c) == Response(500, TRUE, << >>, 0, c.limit, c.offset)

\* Request bodies for the step-by-step runs.
RaceBodies ==
    {[EmptyBody EXCEPT !.account = a, !.limit = l, !.offset = o] :
        a \in {Absent, Str("tg1")},
        l \in {Absent, Num(1), Num(2)},
        o \in {Absent, Num(1), Num(2)}}
    \cup {[EmptyBody EXCEPT !.kind = "malformed"], [EmptyBody EXCEPT !.limit = Str("10")],
          [EmptyBody EXCEPT !.from = Str("yesterday")]}

Valid(body) ==
    body.kind = "object" /\ ~ClampRaises(body.limit) /\ ~ClampRaises(body.offset)

InitRace == IngestLive(<< >>) /\ PoolQuiet /\ SearchQuiet /\ Elsewhere

\* A listener calls insert_message for an event of chat LiveChat while the
\* search API serves: the INSERT appends the row, or fails.
ListenerInsert(a) ==
    /\ proc = "running"
    /\ Len(messages) < MaxRows
    /\ \E ok \in BOOLEAN :
         /\ messages' = IF ok THEN insert_message(messages, a, LiveChat, "u1", "Ann",
                                                  LiveDate, 1)
                              ELSE messages
         /\ last' = [NoInput EXCEPT !.kind = "event", !.account = a, !.registered = TRUE,
                                    !.thread = LiveChat, !.mid = 1, !.date = LiveDate,
                                    !.calls = 1, !.db = IF ok THEN "ok" ELSE "fail",
                                    !.row = IF ok THEN Len(messages) + 1 ELSE 0]
    /\ UNCHANGED <<proc, pc, accounts, sync_history_on_start, per_chat, dlg, pos, dstat,
                   syncState, received, liveCalls, faults, restarts>>
    /\ UNCHANGED <<poolVars, searchVars, startVars, callVars, proxyVars>>

\* handle_search up to "async with pool.acquire()": a body it cannot read is
\* answered at once, any other leaves it waiting for a connection.
BeginSearch(body) ==
    /\ proc = "running"
    /\ phase = "idle"
    /\ req' = body
    /\ IF Valid(body)
       THEN /\ call' = [stage |-> "acquire", step |-> 0, failed |-> "none",
                        page |-> << >>, total |-> 0,
                        limit |-> _clamp(body.limit, 1, 100, 20),
                        offset |-> _clamp(body.offset, 0, 10000, 0),
                        atFetch |-> 0, atCount |-> 0]
            /\ phase' = "serving"
            /\ UNCHANGED resp
       ELSE /\ resp' \in handle_search(messages, body)
            /\ phase' = "answered"
            /\ UNCHANGED call
    /\ UNCHANGED <<prevPage, ingestVars, poolVars, startVars, proxyVars>>

\* pool.acquire() returns a connection, or raises.
Acquire ==
    /\ phase = "serving" /\ call.stage = "acquire"
    /\ \E ok \in BOOLEAN :
         IF ok
         THEN /\ call' = [call EXCEPT !.stage = SearchSteps[1], !.step = 1]
              /\ UNCHANGED <<resp, phase>>
         ELSE /\ call' = [call EXCEPT !.stage = "done", !.failed = "acquire"]
              /\ resp' = OnStoreError(call')
              /\ phase' = "answered"
    /\ UNCHANGED <<req, prevPage, ingestVars, poolVars, startVars, proxyVars>>

\* What a statement leaves in the local variables of the call.
AfterStatement(c, stage, page) ==
    IF stage = "fetch"
    THEN [c EXCEPT !.page = page, !.atFetch = Len(messages)]
    ELSE [c EXCEPT !.total = COUNT_SQL(messages, Params(req)), !.atCount = Len(messages)]

\* The statement of the current step runs against the table as it is now:
\* it returns, or it raises (the store fails, or an argument is refused).
\* After the last statement the 200 response is built and returned.
RunStatement ==
    /\ phase = "serving" /\ call.stage \in {"fetch", "count"}
    /\ \E ok \in BOOLEAN :
       \E page \in SEARCH_SQL(messages, Params(req), call.limit, call.offset) :
         IF ok /\ ~BindRaises(Params(req))
         THEN LET c == AfterStatement(call, call.stage, page) IN
              IF call.step < Len(SearchSteps)
              THEN /\ call' = [c EXCEPT !.stage = SearchSteps[call.step + 1],
                                         !.step = call.step + 1]
                   /\ UNCHANGED <<resp, phase>>
              ELSE /\ call' = [c EXCEPT !.stage = "done"]
                   /\ resp' = Response(200, TRUE, c.page, c.total, c.limit, c.offset)
                   /\ phase' = "answered"
         ELSE /\ call' = [call EXCEPT !.stage = "done", !.failed = call.stage]
              /\ resp' = OnStoreError(call')
              /\ phase' = "answered"
    /\ UNCHANGED <<req, prevPage, ingestVars, poolVars, startVars, proxyVars>>

NextRace ==
    \/ \E a \in Accounts : ListenerInsert(a)
    \/ \E body \in RaceBodies : BeginSearch(body)
    \/ Acquire
    \/ RunStatement

SpecRace == InitRace /\ [][NextRace]_vars

\* ----------------------------------------------------------- main: startup
\* os.getenv values of DATABASE_URL, TGi_API_ID, TGi_API_HASH, TGi_PHONE.
DbUrls == {"unset", "", "dsn"}

ApiIds == {"unset", "abc", "0", "1"}

ApiHashes == {"", "h"}

Phones == {"unset", "p"}

Envs ==
    [db_url : DbUrls,
     slot : [Slots -> [api_id : ApiIds, api_hash : ApiHashes, phone : Phones]]]

\* Python truthiness of an os.getenv value: None and "" are falsy.
Truthy(raw) == raw \notin {"unset", ""}

\* label=f"tg{i}"
Label(i) == CASE i = 1 -> "tg1" [] i = 2 -> "tg2" [] i = 3 -> "tg3"

\* if api_id and api_hash and phone: api_id is getenv_int(...), None when
\* the variable is unset, blank or no integer; None and 0 are both falsy, so
\* 0 stands for None here.
SlotComplete(e, i) ==
    /\ getenv_int(e.slot[i].api_id, 0) # 0
    /\ Truthy(e.slot[i].api_hash)
    /\ Truthy(e.slot[i].phone)

RECURSIVE CollectFrom(_, _, _)
CollectFrom(e, i, acc) ==
    IF i \notin Slots THEN acc
    ELSE CollectFrom(e, i + 1, IF SlotComplete(e, i) THEN Append(acc, Label(i)) ELSE acc)

\* Faulty variant: the label counts the accounts collected so far.
get_accounts_Renumbered(e) ==
    LET found == CollectFrom(e, 1, << >>) IN [k \in 1..Len(found) |-> Label(k)]

\* get_accounts(): the labels of the accounts returned, in order.
get_accounts(e) == CollectFrom(e, 1, << >>)

\* Faulty variant: an empty account list is not fatal.
FatalConfig_DbOnly(e, accts) == ~Truthy(e.db_url)

\* if not db_url: raise SystemExit; if not accounts: raise SystemExit
FatalConfig(e, accts) == ~Truthy(e.db_url) \/ accts = << >>

\* How far main() has come: its stage, whether the pool was created and the
\* HTTP site started, the accounts a run_account task was created for.
Boot(stage, pool, http, listeners) ==
    [stage |-> stage, pool |-> pool, http |-> http, listeners |-> listeners]

InitStartup ==
    /\ IngestAt("start", << >>) /\ PoolQuiet /\ SearchQuiet /\ CallQuiet /\ ProxyQuiet
    /\ env \in Envs
    /\ boot = Boot("init", FALSE, FALSE, << >>)
    /\ configured = << >>

\* main() up to create_pool: DATABASE_URL is read, then get_accounts() is
\* called; SystemExit is raised when either is missing.
Configure ==
    /\ boot.stage = "init"
    /\ configured' = IF Truthy(env.db_url) THEN get_accounts(env) ELSE << >>
    /\ boot' = Boot(IF FatalConfig(env, configured') THEN "aborted" ELSE "configured",
                    FALSE, FALSE, << >>)
    /\ UNCHANGED <<env, ingestVars, poolVars, searchVars, callVars, proxyVars>>

\* await asyncpg.create_pool(...) and the CREATE TABLE statements: they
\* succeed, or raise and end main().
CreatePool ==
    /\ boot.stage = "configured"
    /\ \E ok \in BOOLEAN :
         boot' = IF ok THEN Boot("pooled", TRUE, FALSE, << >>)
                       ELSE Boot("failed", FALSE, FALSE, << >>)
    /\ UNCHANGED <<env, configured, ingestVars, poolVars, searchVars, callVars, proxyVars>>

\* runner.setup() and site.start(): the search API listens, or the port
\* cannot be bound and main() ends.
StartHttp ==
    /\ boot.stage = "pooled"
    /\ \E ok \in BOOLEAN :
         boot' = IF ok THEN Boot("serving", TRUE, TRUE, << >>)
                       ELSE Boot("failed", TRUE, FALSE, << >>)
    /\ UNCHANGED <<env, configured, ingestVars, poolVars, searchVars, callVars, proxyVars>>

\* tasks = [asyncio.create_task(run_account(...)) for account in accounts]
StartListeners ==
    /\ boot.stage = "serving"
    /\ boot' = Boot("listening", TRUE, TRUE, configured)
    /\ UNCHANGED <<env, configured, ingestVars, poolVars, searchVars, callVars, proxyVars>>

NextStartup ==
    \/ Configure
    \/ CreatePool
    \/ StartHttp
    \/ StartListeners

SpecStartup == InitStartup /\ [][NextStartup]_vars

\* ------------------------------------------------- google-mcp-sidecar: tools
\* The account argument of a tool: empty, a configured account, or one that
\* is not configured.
AccountArgs == {"", "b@x", "nobody@x"}

\* What the remote side holds for each account: the date (start) of each
\* of its items, in the order the API lists them.
Mailbox(k) == IF k = "a@x" THEN <<2>> ELSE <<1, 3>>

\* _resolve_account: the account itself if configured, else the first
\* configured account.
_resolve_account(account) ==
    IF account # "" /\ account \in GoogleKeys THEN account ELSE GoogleAccounts[1]

\* What the remote side does during one query of an account: whether
\* cached.refresh() succeeds, whether refresh() of a fresh Credentials
\* succeeds, whether the API request succeeds. A token endpoint that
\* refreshes the cached object refreshes a fresh one too, and no API request
\* succeeds without credentials.
Outcomes ==
    {o \in [refresh : BOOLEAN, fresh : BOOLEAN, api : BOOLEAN] :
        (o.refresh => o.fresh) /\ (o.api => o.fresh)}

\* The configured accounts a call with this account argument queries.
Asked(account) == IF account = "" THEN GoogleKeys ELSE {_resolve_account(account)}

\* The module state the helpers read and write.
Caches(cc, sc, cv) == [cc |-> cc, sc |-> sc, cv |-> cv]

\* _get_credentials: out is the Credentials object returned, NoCreds when
\* the call raised.
_get_credentials(st, account, o) ==
    LET key == _resolve_account(account)
        cached == st.cc[key]
    IN  IF cached # NoCreds /\ st.cv[cached]
        THEN [st |-> st, out |-> cached]
        ELSE IF cached # NoCreds /\ o.refresh
        THEN [st |-> [st EXCEPT !.cv[cached] = TRUE], out |-> cached]
        ELSE IF o.fresh
        THEN LET creds == Len(st.cv) + 1
             IN  [st |-> [st EXCEPT !.cv = Append(@, TRUE), !.cc[key] = creds],
                  out |-> creds]
        ELSE [st |-> st, out |-> NoCreds]

\* build(api, version, credentials=creds) and the store into _service_cache.
\* A handle is known by the Credentials object it was built from.
BuildService(st, key, api, o) ==
    LET g == _get_credentials(st, key, o)
    IN  IF g.out = NoCreds THEN g
        ELSE [st |-> [g.st EXCEPT !.sc[key][api] = g.out], out |-> g.out]

\* _get_service: out is the handle returned, NoCreds when the call raised.
_get_service(st, account, api, o) ==
    LET key == _resolve_account(account)
    IN  IF st.sc[key][api] # NoCreds
        THEN LET g == _get_credentials(st, key, o)
             IN  IF g.out = NoCreds THEN g
                 ELSE IF g.st.cv[g.out]
                 THEN [st |-> g.st, out |-> g.st.sc[key][api]]
                 ELSE BuildService(g.st, key, api, o)
        ELSE BuildService(st, key, api, o)

\* The dicts appended for one account: "account" is the argument the query
\* was made with; used is the key _get_service resolved it to.
ItemsFor(account_key, dates) ==
    [i \in DOMAIN dates |->
        [account |-> account_key, used |-> _resolve_account(account_key),
         date |-> dates[i]]]

\* The progress of a tool call: the caches, the items collected so far,
\* the accounts queried, those that raised, the handles obtained.
Progress(st, items, queried, failed, handles) ==
    [st |-> st, items |-> items, queried |-> queried, failed |-> failed,
     handles |-> handles]

\* Faulty variant: the items of an account are kept although its query
\* raised.
QuerySingle_KeepPartial(acc, account_key, api, O) ==
    LET key == _resolve_account(account_key)
        g == _get_service(acc.st, account_key, api, O[key])
    IN  Progress(g.st, acc.items \o ItemsFor(account_key, Mailbox(key)),
                 Append(acc.queried, account_key),
                 IF g.out # NoCreds /\ O[key].api THEN acc.failed
                 ELSE acc.failed \cup {account_key},
                 acc.handles)

\* _query_gmail_single, _calendar_events_single and the body of the loop of
\* drive_search_files: get the handle, list the items, tag each with the
\* account asked for. A query that raises adds no item.
QuerySingle(acc, account_key, api, O) ==
    LET key == _resolve_account(account_key)
        g == _get_service(acc.st, account_key, api, O[key])
        ok == g.out # NoCreds /\ O[key].api
    IN  Progress(g.st,
                 IF ok THEN acc.items \o ItemsFor(account_key, Mailbox(key))
                 ELSE acc.items,
                 Append(acc.queried, account_key),
                 IF ok THEN acc.failed ELSE acc.failed \cup {account_key},
                 IF g.out # NoCreds
                 THEN Append(acc.handles,
                             [key |-> key, built |-> g.out, current |-> g.st.cc[key]])
                 ELSE acc.handles)

\* for acct in ...: try: <query acct> except Exception: print(...)
RECURSIVE QueryEach(_, _, _, _)
QueryEach(acc, accts, api, O) ==
    IF accts = << >> THEN acc
    ELSE QueryEach(QuerySingle(acc, Head(accts), api, O), Tail(accts), api, O)

\* list.sort(key=date): a stable sort, ascending or (reverse=True) descending.
RECURSIVE SortByDate(_, _)
SortByDate(items, reverse) ==
    IF items = << >> THEN << >>
    ELSE LET x == items[Len(items)]
             before == SortByDate(SubSeq(items, 1, Len(items) - 1), reverse)
             Stays(y) == IF reverse THEN y.date >= x.date ELSE y.date <= x.date
             n == Cardinality({i \in DOMAIN before : Stays(before[i])})
         IN  SubSeq(before, 1, n) \o <<x>> \o SubSeq(before, n + 1, Len(before))

Start(st) == Progress(st, << >>, << >>, {}, << >>)

\* The answer of a call that queried one account outside of any try: the
\* exception of a failed query leaves the tool.
AnswerSingle(tool, account, acc) ==
    [st |-> acc.st,
     result |-> Result(tool, account, acc.failed # {}, acc.items,
                       acc.queried, acc.failed, acc.handles)]

\* The answer of a call that swallowed the exceptions of its queries.
AnswerMerged(tool, account, acc, items) ==
    [st |-> acc.st,
     result |-> Result(tool, account, FALSE, items, acc.queried, acc.failed,
                       acc.handles)]

query_gmail_emails(st, account, O) ==
    IF account # ""
    THEN AnswerSingle("query_gmail_emails", account,
                      QuerySingle(Start(st), account, "gmail", O))
    ELSE LET acc == QueryEach(Start(st), GoogleAccounts, "gmail", O)
         IN  AnswerMerged("query_gmail_emails", account, acc,
                          SortByDate(acc.items, TRUE))

calendar_get_events(st, account, O) ==
    IF account # ""
    THEN AnswerSingle("calendar_get_events", account,
                      QuerySingle(Start(st), account, "calendar", O))
    ELSE LET acc == QueryEach(Start(st), GoogleAccounts, "calendar", O)
         IN  AnswerMerged("calendar_get_events", account, acc,
                          SortByDate(acc.items, FALSE))

drive_search_files(st, account, O) ==
    LET accounts_to_query == IF account # "" THEN <<account>> ELSE GoogleAccounts
        acc == QueryEach(Start(st), accounts_to_query, "drive", O)
    IN  AnswerMerged("drive_search_files", account, acc, acc.items)

InitProxy ==
    /\ IngestLive(<< >>) /\ PoolQuiet /\ SearchQuiet /\ StartQuiet /\ CallQuiet
    /\ ProxyQuiet

\* The access token of a cached Credentials object expires.
Expire ==
    /\ \E k \in GoogleKeys :
         /\ creds_cache[k] # NoCreds
         /\ credValid[creds_cache[k]]
         /\ credValid' = [credValid EXCEPT ![creds_cache[k]] = FALSE]
    /\ UNCHANGED <<creds_cache, service_cache, result>>
    /\ UNCHANGED <<ingestVars, poolVars, searchVars, startVars, callVars>>

\* One tool call, from the request to the answer.
Answer(a) ==
    /\ Len(a.st.cv) <= MaxCreds
    /\ creds_cache' = a.st.cc
    /\ service_cache' = a.st.sc
    /\ credValid' = a.st.cv
    /\ result' = a.result
    /\ UNCHANGED <<ingestVars, poolVars, searchVars, startVars, callVars>>

CallGmail ==
    \E account \in AccountArgs : \E O \in [Asked(account) -> Outcomes] :
        Answer(query_gmail_emails(Caches(creds_cache, service_cache, credValid),
                                  account, O))

CallCalendar ==
    \E account \in AccountArgs : \E O \in [Asked(account) -> Outcomes] :
        Answer(calendar_get_events(Caches(creds_cache, service_cache, credValid),
                                   account, O))

CallDrive ==
    \E account \in AccountArgs : \E O \in [Asked(account) -> Outcomes] :
        Answer(drive_search_files(Caches(creds_cache, service_cache, credValid),
                                  account, O))

NextProxy ==
    \/ Expire
    \/ CallGmail
    \/ CallCalendar
    \/ CallDrive

SpecProxy == InitProxy /\ [][NextProxy]_vars

\* ------------------------------------------------------------------ claims
Rows == 1..Len(messages)

\* Rows of the messages table that backfill wrote for conversation d of
\* account a: historical messages carry the ids 1..MaxHist.
BackfillRows(a, d) ==
    {i \in Rows : /\ messages[i].account_label = a
                  /\ messages[i].thread_id = d
                  /\ messages[i].message_id <= MaxHist}

LiveRows(a) ==
    {i \in Rows : messages[i].account_label = a /\ messages[i].message_id > MaxHist}

MidsOf(a, d) == {messages[i].message_id : i \in BackfillRows(a, d)}

\* C1: when a listener has ended with a connection-level error, the process
\* keeps running, the Search Service stays up and no sibling listener is
\* stopped.
C1_ListenerFailureIsolated ==
    \A a \in Accounts :
        pc[a] = "failed" =>
            /\ proc = "running"
            /\ SearchServiceUp
            /\ \A b \in Accounts \ {a} : pc[b] # "cancelled"

\* C2: however often ensure_account_row has run for a label, over reconnects
\* and restarts against the same store, the accounts table holds at most one
\* row with that label.
C2_OneAccountRowPerLabel ==
    \A a \in Accounts :
        Cardinality({i \in 1..Len(accounts) : accounts[i].label = a}) <= 1

\* C3: every new-message event a connected session receives leads to exactly
\* one insert_message call.
C3_EveryEventOneWriteAttempt ==
    last.kind = "live" => last.calls = 1

C5_MessageHasAccount ==
    \A i \in Rows :
        \E j \in 1..Len(accounts) :
            /\ accounts[j].source = messages[i].source
            /\ accounts[j].label = messages[i].account_label

\* C5 witness: both a backfill row and a live row are in the store.
C5_Witness ==
    /\ \E a \in Accounts : LiveRows(a) # {}
    /\ \E a \in Accounts : \E d \in 1..Len(Dialogs[a]) : BackfillRows(a, Dialogs[a][d]) # {}

\* C6: within one account no backfill write is issued once a live write of
\* that account has been issued.
C6_BackfillBeforeLive ==
    [][\A a \in Accounts :
          (/\ last' # last
           /\ last'.kind = "backfill" /\ last'.account = a /\ last'.calls = 1)
          => liveCalls[a] = 0]_vars

\* C6 witness: an account's backfill row, then a live row of the same
\* account, then a backfill row of another account.
C6_Witness ==
    \E i, j, k \in Rows :
        /\ i < j /\ j < k
        /\ messages[i].account_label = messages[j].account_label
        /\ messages[i].message_id <= MaxHist
        /\ messages[j].message_id > MaxHist
        /\ messages[k].account_label # messages[j].account_label
        /\ messages[k].message_id <= MaxHist

\* C7 (as claimed): once sync_history has returned, with the fetch of
\* conversation c having raised and conversation d having raised nothing,
\* all of d's messages within the limit are in the store, none of c's is,
\* and the handler is registered.
C7_FailedConversationAbsent ==
    \A a \in Accounts : \A c, d \in 1..Len(Dialogs[a]) :
        (/\ syncState[a] = "returned"
         /\ dstat[a][c].abort = "fetch"
         /\ dstat[a][d].abort = "none")
        => /\ MidsOf(a, Dialogs[a][d]) = 1..Yieldable(per_chat)
           /\ BackfillRows(a, Dialogs[a][c]) = {}
           /\ pc[a] \notin Ended => HandlerRegistered(pc[a])

\* C7 (amended): a fetch error in a conversation never makes sync_history
\* raise; once sync_history has returned every conversation has been gone
\* through and the handler is registered; of a conversation c whose fetch
\* raised, exactly the timestamped messages yielded before the error are in
\* the store (none when the error came first); of a conversation d that
\* raised nothing, exactly the timestamped messages within the limit are.
C7_FailedConversationSkipped ==
    \A a \in Accounts :
        /\ \A c \in 1..Len(Dialogs[a]) :
               dstat[a][c].abort = "fetch" => syncState[a] # "raised"
        /\ syncState[a] = "returned" =>
               /\ \A d \in 1..Len(Dialogs[a]) : dstat[a][d].done
               /\ pc[a] \notin Ended => HandlerRegistered(pc[a])
               /\ \A c \in 1..Len(Dialogs[a]) :
                      dstat[a][c].abort = "fetch" =>
                          /\ MidsOf(a, Dialogs[a][c]) \subseteq 1..dstat[a][c].seen
                          /\ Cardinality(MidsOf(a, Dialogs[a][c]))
                                 = dstat[a][c].seen - dstat[a][c].undated
               /\ \A d \in 1..Len(Dialogs[a]) :
                      dstat[a][d].abort = "none" =>
                          /\ dstat[a][d].seen = Yieldable(per_chat)
                          /\ MidsOf(a, Dialogs[a][d]) \subseteq 1..Yieldable(per_chat)
                          /\ Cardinality(MidsOf(a, Dialogs[a][d]))
                                 = Yieldable(per_chat) - dstat[a][d].undated

\* C7 witness: the fetch of one conversation raised before any message, the
\* other conversation's messages are all in the store, and live capture runs.
C7_Witness ==
    \E a \in Accounts : \E c, d \in 1..Len(Dialogs[a]) :
        /\ syncState[a] = "returned" /\ pc[a] = "live"
        /\ dstat[a][c].abort = "fetch" /\ dstat[a][c].seen = 0
        /\ BackfillRows(a, Dialogs[a][c]) = {}
        /\ dstat[a][d].abort = "none"
        /\ Yieldable(per_chat) > 0
        /\ MidsOf(a, Dialogs[a][d]) = 1..Yieldable(per_chat)

\* C8: the effective per-conversation limit is a positive integer and
\* backfill writes at most that many messages for any conversation.
C8_PositiveLimitBoundsBackfill ==
    /\ per_chat > 0
    /\ \A a \in Accounts : \A d \in 1..Len(Dialogs[a]) :
           Cardinality(BackfillRows(a, Dialogs[a][d])) <= per_chat

\* C9: a live event whose sender or chat lookup fails is still written, once,
\* with null in the fields the failed lookup would have filled.
C9_LookupFailureStillWrites ==
    (/\ last.kind = "live" /\ last.registered /\ last.db = "ok"
     /\ last.sender # "ok" \/ last.chat # "ok")
    => /\ last.calls = 1
       /\ last.row \in Rows
       /\ last.sender # "ok" => messages[last.row].sender_id = NULL
       /\ last.chat # "ok" => messages[last.row].thread_id = NULL

\* C10: a store write failure drops only the event it hit: a conversation
\* whose backfill met a write failure still has all its later messages
\* processed, and the listener is not aborted.
C10_WriteFailureDropsOnlyThatEvent ==
    /\ \A a \in Accounts : \A d \in 1..Len(Dialogs[a]) :
           dstat[a][d].abort = "db" => dstat[a][d].seen = Yieldable(per_chat)
    /\ (last.kind # "none" /\ last.calls = 1 /\ last.db = "fail") =>
           syncState[last.account] # "raised"

\* C11: a listener waiting on the network holds no store connection, and
\* every task waiting for a connection of the pool is eventually given one
\* (its wait ends, and ends only by the grant), however long a listener stays
\* stalled on the network.
C11_StalledListenerBlocksNobody ==
    /\ [](\A l \in Listeners : conn[l].at = "network" => conn[l].pool = "none")
    /\ [][\A c \in Clients : conn[c].pool = "waiting" =>
                                 conn'[c].pool \in {"waiting", "held"}]_vars
    /\ \A c \in Clients : (conn[c].pool = "waiting") ~> (conn[c].pool = "held")

\* A listener waits on the network while the pool is exhausted and another
\* task waits for a connection.
C11_Witness ==
    /\ \E l \in Listeners : conn[l].at = "network"
    /\ InUse = PoolMax
    /\ \E c \in Clients : conn[c].pool = "waiting"

\* C12: when the process is shut down, every insert in flight runs to
\* completion: none is abandoned.
C12_InFlightInsertsComplete ==
    \A l \in Listeners : conn[l].at # "abandoned"

\* The ids of a page, and whether a search was answered with a page.
PageIds(r) == {r.messages[i] : i \in DOMAIN r.messages}

Answered == phase # "idle" /\ resp.status = 200

\* C13: for fixed filters and an unchanged store, the page at offset 0 with
\* limit L and the page at offset L with limit L share no row id.
C13_PagesShareNoRow ==
    (phase = "paged" /\ prevPage.status = 200 /\ resp.status = 200
        /\ prevPage.offset = 0 /\ resp.offset = prevPage.limit)
    => PageIds(prevPage) \cap PageIds(resp) = {}

\* C14: rows of equal timestamp come in descending id order.
C14_TiesByIdDescending ==
    Answered =>
        \A i, j \in DOMAIN resp.messages :
            (i < j /\ messages[resp.messages[i]].ts = messages[resp.messages[j]].ts)
            => resp.messages[i] > resp.messages[j]

\* C15: of two returned rows with different timestamps the later one comes
\* first, whatever their accounts and their insertion order.
C15_LaterRowFirst ==
    Answered =>
        \A i, j \in DOMAIN resp.messages :
            (i < j /\ messages[resp.messages[i]].ts # messages[resp.messages[j]].ts)
            => messages[resp.messages[i]].ts > messages[resp.messages[j]].ts

\* A page lists a tg2 row ahead of a tg1 row of an earlier timestamp, the
\* tg1 row having been inserted first.
C15_Witness ==
    /\ Answered
    /\ \E i, j \in DOMAIN resp.messages :
         /\ i < j
         /\ messages[resp.messages[i]].account_label = "tg2"
         /\ messages[resp.messages[j]].account_label = "tg1"
         /\ messages[resp.messages[i]].ts > messages[resp.messages[j]].ts
         /\ resp.messages[i] > resp.messages[j]

\* C16: total is the number of rows the filters select, whatever the limit
\* and the offset, and the page holds min(limit, max(0, total - offset))
\* rows.
C16_TotalAndPageSize ==
    /\ Answered =>
         /\ resp.total =
              Cardinality({i \in 1..Len(messages) : SearchWhere(messages[i], Params(req))})
         /\ Len(resp.messages) = Min(resp.limit, Max(0, resp.total - resp.offset))
    /\ (Answered /\ phase = "paged" /\ prevPage.status = 200) =>
         resp.total = prevPage.total

\* A search filtered by account leaves rows out, and its second page starts
\* past the first and ends with the last selected row.
C16_Witness ==
    /\ Answered /\ phase = "paged"
    /\ req.account.t = "str"
    /\ resp.total < Len(messages)
    /\ resp.offset > 0
    /\ Len(resp.messages) = resp.limit
    /\ resp.total = resp.offset + resp.limit

\* What a requested limit or offset becomes: the default when absent, the
\* nearest bound when out of range, itself otherwise.
Effective(j, lo, hi, default) ==
    IF IsNone(j) THEN default
    ELSE IF j.n < lo THEN lo
    ELSE IF j.n > hi THEN hi
    ELSE j.n

\* C17: the limit passed on is the requested one clamped into [1, 100], 20
\* when absent, and the offset the requested one clamped into [0, 10000], 0
\* when absent.
C17_LimitAndOffsetClamped ==
    Answered =>
        /\ resp.limit \in 1..100
        /\ resp.offset \in 0..10000
        /\ resp.limit = Effective(req.limit, 1, 100, 20)
        /\ resp.offset = Effective(req.offset, 0, 10000, 0)

\* limit=500 was served as 100, and offset=-5 as 0.
C17_Witness ==
    /\ Answered
    /\ req.limit.t = "int" /\ req.limit.n = 500 /\ resp.limit = 100
    /\ req.offset.t = "int" /\ req.offset.n = 0 - 5 /\ resp.offset = 0

\* A filter is specified when its key is present and not null.
Specified(j) == ~IsNone(j)

\* The timestamps a client can send that parse as timestamps.
ParsableTimes == {"2024-01-01T00:00:00Z"}

Parsable(j) == j.t = "str" /\ j.s \in ParsableTimes

\* The rows that satisfy every specified filter among source, query,
\* account and thread_id of a body.
SatisfyingRows(body) ==
    {i \in 1..Len(messages) :
        /\ Specified(body.source) => messages[i].source = body.source.s
        /\ Specified(body.query) => QueryClause(messages[i], Params(body))
        /\ Specified(body.account) => messages[i].account_label = body.account.s
        /\ Specified(body.thread_id) =>
               (messages[i].thread_id # NULL /\ messages[i].thread_id = body.thread_id.s)}

\* C18: a search selects exactly the rows that satisfy the conjunction of
\* the specified filters; a filter that is omitted or null constrains
\* nothing; a search whose filters are well formed succeeds, with an empty
\* page and total=0 when no row matches.
C18_SpecifiedFiltersSelect ==
    (/\ phase # "idle" /\ req.kind = "object"
     /\ IsNone(req.limit) /\ IsNone(req.offset)
     /\ \A j \in {req.from, req.to} : IsNone(j) \/ Parsable(j))
    => /\ resp.status = 200
       /\ (IsNone(req.from) /\ IsNone(req.to)) =>
             /\ PageIds(resp) = SatisfyingRows(req)
             /\ resp.total = Cardinality(SatisfyingRows(req))

\* The rows that pass every clause but the one on the query.
OtherClauses(p) ==
    {i \in 1..Len(messages) :
        /\ SourceClause(messages[i], p) /\ AccountClause(messages[i], p)
        /\ ThreadClause(messages[i], p) /\ FromClause(messages[i], p)
        /\ ToClause(messages[i], p)}

\* A query that is empty or made of whitespace only.
IsBlank(q) == \A i \in DOMAIN CharsOf[q] : CharsOf[q][i] = " "

\* The rows whose text is not null and holds every token of q.
HoldingAllTokens(q) ==
    {i \in 1..Len(messages) :
        /\ messages[i].text # NULL
        /\ plainto_tsquery(q) \subseteq to_tsvector(messages[i].text)}

\* A search with a string query that was answered with its whole result.
WholeResult == Answered /\ req.query.t = "str" /\ IsNone(req.limit) /\ IsNone(req.offset)

\* C19: an empty or whitespace-only query matches every row that satisfies
\* the other filters; any other query matches only rows whose text is not
\* null and holds all its tokens, and yields total=0 when no text does.
C19_NonBlankQueryNeedsTokens ==
    WholeResult =>
        LET q == req.query.s IN
        IF IsBlank(q)
        THEN /\ PageIds(resp) = OtherClauses(Params(req))
             /\ resp.total = Cardinality(OtherClauses(Params(req)))
        ELSE /\ PageIds(resp) \subseteq HoldingAllTokens(q)
             /\ HoldingAllTokens(q) = {} => resp.total = 0

\* C19, amended: a query without a token (empty, whitespace only, or made
\* of characters that form no token) matches every row that satisfies the
\* other filters, rows of null text included; a query with a token matches
\* exactly the rows that satisfy the other filters and whose text is not null
\* and holds all its tokens.
C19_QueryMatchesByTokens ==
    WholeResult =>
        LET q == req.query.s
            expected == IF plainto_tsquery(q) = {}
                        THEN OtherClauses(Params(req))
                        ELSE OtherClauses(Params(req)) \cap HoldingAllTokens(q)
        IN /\ PageIds(resp) = expected
           /\ resp.total = Cardinality(expected)

\* The query "hi yo" found the row "Hi yo" and neither the row "hi" nor the
\* row without text.
C19_Witness ==
    /\ WholeResult
    /\ req.query.s = "hi yo"
    /\ resp.total = 1
    /\ \E i \in 1..Len(messages) : messages[i].text = NULL
    /\ \E i \in 1..Len(messages) : messages[i].text = "hi"
    /\ \A i \in PageIds(resp) : messages[i].text = "Hi yo"

\* A body that is not JSON, not an object, or carries a limit or offset
\* that is not an integer or a from or to that is no timestamp.
InvalidShape(body) ==
    \/ body.kind \in {"malformed", "array"}
    \/ body.kind = "object" /\
         \/ ClampRaises(body.limit) \/ ClampRaises(body.offset)
         \/ \E j \in {body.from, body.to} : ~IsNone(j) /\ ~Parsable(j)

\* C20: a request of invalid shape is refused with a 4xx status before the
\* store is touched.
C20_InvalidRequestRefused ==
    (phase # "idle" /\ InvalidShape(req)) =>
        (resp.status \in 400..499 /\ ~resp.acquired)

\* C21: when the store fails during a search (on acquire, on the page
\* query, or on the count query after the page query succeeded) the answer
\* is a 5xx status without messages and without a total.
C21_StoreFailureGivesNoData ==
    (phase = "answered" /\ call.failed # "none") =>
        /\ resp.status \in 500..599
        /\ resp.messages = << >>
        /\ resp.total = 0

\* The count query failed after the page query had fetched rows.
C21_Witness ==
    /\ phase = "answered"
    /\ call.failed = "count"
    /\ call.page # << >>
    /\ resp.status = 500

\* A step that is a successful insert_message call.
InsertSucceeds == last' # last /\ last'.kind = "event" /\ last'.db = "ok"

\* C22: the messages table changes only by a successful insert_message
\* call, which appends exactly one row whose id is larger than every id in
\* the table and leaves the other rows as they were, also when a row of the
\* same account, conversation and origin message id is there already; a
\* search, answered or failed, leaves both tables unchanged.
C22_MessagesOnlyAppended ==
    [][/\ InsertSucceeds =>
            /\ Len(messages') = Len(messages) + 1
            /\ SubSeq(messages', 1, Len(messages)) = messages
            /\ \A i \in 1..Len(messages) : messages'[Len(messages')].id > messages[i].id
       /\ ~InsertSucceeds => messages' = messages
       /\ (req' # req \/ call' # call \/ resp' # resp) =>
            (messages' = messages /\ accounts' = accounts)]_vars

\* Two rows of the same account, conversation and origin message id, and a
\* search answered over them.
C22_Witness ==
    /\ phase = "answered"
    /\ \E i, j \in 1..Len(messages) :
         /\ i # j
         /\ messages[i].account_label = messages[j].account_label
         /\ messages[i].thread_id = messages[j].thread_id
         /\ messages[i].message_id = messages[j].message_id
         /\ messages[i].id # messages[j].id

\* C25: a 200 response with a non-empty page satisfies offset +
\* len(messages) <= total, also when rows were inserted between the page
\* query and the count query.
C25_PageWithinTotal ==
    (phase = "answered" /\ resp.status = 200 /\ resp.messages # << >>) =>
        resp.offset + Len(resp.messages) <= resp.total

\* A row was inserted between the two statements of an answered search with
\* a non-empty page past offset 0.
C25_Witness ==
    /\ phase = "answered" /\ resp.status = 200 /\ resp.messages # << >>
    /\ call.atCount > call.atFetch
    /\ resp.offset > 0
    /\ resp.total > resp.offset + Len(resp.messages)

\* A value that is present and not empty.
Present(raw) == raw \notin {"unset", ""}

\* The labels of a sequence of accounts.
LabelsOf(accts) == {accts[k] : k \in DOMAIN accts}

\* get_accounts() has been called.
Collected == boot.stage # "init" /\ Truthy(env.db_url)

\* C23: get_accounts returns exactly the slots whose api id, api hash and
\* phone are all present and non-empty, in slot order, each labelled by its
\* slot.
C23_PresentSlotsReturned ==
    Collected =>
        \A i \in Slots :
            Label(i) \in LabelsOf(configured) <=>
                /\ Present(env.slot[i].api_id)
                /\ Present(env.slot[i].api_hash)
                /\ Present(env.slot[i].phone)

\* C23, amended: get_accounts returns exactly the slots whose api id is an
\* integer other than 0 and whose api hash and phone are present and
\* non-empty, in slot order without repetition, each labelled by its slot
\* alone.
C23_UsableSlotsReturned ==
    Collected =>
        /\ \A i \in Slots :
              Label(i) \in LabelsOf(configured) <=>
                  /\ env.slot[i].api_id \in DOMAIN IntLiterals
                  /\ IntLiterals[env.slot[i].api_id] # 0
                  /\ Present(env.slot[i].api_hash)
                  /\ Present(env.slot[i].phone)
        /\ \A k, m \in DOMAIN configured :
              k < m => \E i, j \in Slots :
                          i < j /\ configured[k] = Label(i) /\ configured[m] = Label(j)

\* Slot 1 is incomplete and skipped; slots 2 and 3 keep their labels.
C23_Witness ==
    /\ Collected
    /\ env.slot[1].api_id = "abc"
    /\ configured = <<"tg2", "tg3">>

\* The connection string is absent, or no account is valid.
Unconfigured == ~Present(env.db_url) \/ get_accounts(env) = << >>

\* C24: startup aborts fatally exactly when the connection string is absent
\* or no account is valid, and then before the pool, the HTTP server and
\* any listener; otherwise it proceeds with the valid accounts.
C24_AbortsExactlyWhenUnconfigured ==
    /\ boot.stage \in {"aborted", "failed"} =>
          (Unconfigured /\ ~boot.pool /\ ~boot.http /\ boot.listeners = << >>)
    /\ (Unconfigured /\ boot.stage # "init") => boot.stage = "aborted"

\* C24, amended: startup aborts before the pool is created exactly when the
\* connection string is absent or empty or no account is valid, and then
\* nothing was started; otherwise it goes on to create the pool, and it
\* either ends up with the HTTP server and one listener per valid account,
\* or fails at the pool or at the HTTP server before any listener is started.
C24_ConfigAbortBeforePool ==
    /\ boot.stage = "aborted" =>
          (Unconfigured /\ ~boot.pool /\ ~boot.http /\ boot.listeners = << >>)
    /\ (Unconfigured /\ boot.stage # "init") => boot.stage = "aborted"
    /\ boot.stage = "failed" => (~Unconfigured /\ boot.listeners = << >>)
    /\ boot.stage = "listening" =>
          (boot.pool /\ boot.http /\ boot.listeners = get_accounts(env)
           /\ boot.listeners # << >>)
    /\ boot.listeners # << >> => boot.stage = "listening"

\* Startup went through with one slot skipped.
C24_Witness ==
    /\ boot.stage = "listening"
    /\ boot.listeners = <<"tg1", "tg3">>

\* A tool call has been answered.
Called == result.tool # "none"

\* The items of the answer that carry this account.
ItemsOf(k) == {i \in DOMAIN result.items : result.items[i].account = k}

\* C26: called with an empty account, query_gmail_emails,
\* calendar_get_events and drive_search_files query every configured account
\* exactly once and merge what they get; an account whose query raised
\* contributes nothing and does not fail the call; total is the number of
\* merged items.
C26_MergedOverAllAccounts ==
    (Called /\ result.requested = "") =>
        /\ ~result.error
        /\ result.queried = GoogleAccounts
        /\ \A k \in GoogleKeys :
              Cardinality(ItemsOf(k)) =
                  IF k \in result.failed THEN 0 ELSE Len(Mailbox(k))
        /\ \A i \in DOMAIN result.items : result.items[i].account \in GoogleKeys
        /\ result.total = Len(result.items)

\* The query of the first account raised; the call answered the two items
\* of the second.
C26_Witness ==
    /\ result.tool = "calendar_get_events"
    /\ result.requested = ""
    /\ result.failed = {"a@x"}
    /\ result.total = 2

\* C27: the account field of every item names the configured account whose
\* credentials were used to fetch it, whatever account was asked for.
C27_ItemsNameUsedAccount ==
    Called => \A i \in DOMAIN result.items :
                  result.items[i].account = result.items[i].used

\* C28: a handle returned by _get_service was built from the Credentials
\* object that the credentials cache holds for its account at that time.
C28_HandleFromCachedCredentials ==
    Called => \A i \in DOMAIN result.handles :
                  result.handles[i].built = result.handles[i].current

====
